---- MODULE Spec2Model ----
(***************************************************************************)
(* A model of the simple_units header (src/units.hpp): the quantity type   *)
(* su::unit<Tag, Rep, Scale>, the conversion primitive unit_cast, the      *)
(* common-type resolver, the arithmetic and comparison operators, the      *)
(* std::chrono bridge and the relation tables su::ops::mul / su::ops::div  *)
(* filled by SU_MUL / SU_DIV / SU_INV.                                     *)
(*                                                                         *)
(* A type unit<Tag, Rep, Scale> is a record [tag, rep, scale]; an object   *)
(* of that type adds the single data member m_val as the field count.      *)
(* Integral counts are integers.  A double count is the rational [n, d]    *)
(* it is exactly, or Untracked once an operation had to round.  All        *)
(* 64-bit intermediate values stay far inside the 64-bit range for the     *)
(* inputs drawn here, so only the 16-bit conversions can wrap.             *)
(***************************************************************************)
EXTENDS Integers, Sequences, FiniteSets, TLC

VARIABLES mulT, divT, a, b, res

vars == <<mulT, divT, a, b, res>>

\* Largest magnitude of a stored count drawn as an input.
MaxCount == 3

\* A count large enough that the product of two of them leaves 16 bits.
LargeCount == 200

\* Largest number of relation declarations in one translation unit.
MaxDecls == 2

----------------------------------------------------------------------------
(* Integer helpers: C++ integer division and remainder truncate toward 0. *)

abs(x) == IF x < 0 THEN -x ELSE x

TruncDiv(x, y) ==
    IF (x >= 0) = (y > 0) THEN abs(x) \div abs(y) ELSE -(abs(x) \div abs(y))

TruncRem(x, y) == x - y * TruncDiv(x, y)

RECURSIVE gcd(_, _)
gcd(x, y) ==
    IF y = 0 THEN abs(x)
    ELSE IF x = 0 THEN abs(y)
    ELSE gcd(y, TruncRem(x, y))

sign(x) == IF x < 0 THEN -1 ELSE 1

\* std::ratio<N, D>: num and den are N/D in lowest terms, den positive.
ratio(N, D) ==
    [num |-> sign(N) * sign(D) * (abs(N) \div gcd(N, D)),
     den |-> abs(D) \div gcd(N, D)]

ratio_divide(R1, R2) == ratio(R1.num * R2.den, R1.den * R2.num)

ratio_multiply(R1, R2) == ratio(R1.num * R2.num, R1.den * R2.den)

----------------------------------------------------------------------------
(* Representations and their values. *)

IntReps == {"int16_t", "int64_t"}

Reps == IntReps \cup {"double"}

treat_as_floating_point(rep) == rep = "double"

\* std::common_type_t<Rep1, Rep2> of two arithmetic types.
CommonRep(r1, r2) ==
    IF r1 = "double" \/ r2 = "double" THEN "double"
    ELSE IF r1 = r2 THEN r1
    ELSE "int64_t"

\* The type of an arithmetic expression mixing a value of type rep with an
\* intmax_t (the members of std::ratio): usual arithmetic conversions.
WithIntmax(rep) == IF rep = "double" THEN "double" ELSE "int64_t"

\* Conversion of an integer to a 16-bit or 64-bit signed type (modular).
Narrow(v, rep) ==
    IF rep = "int16_t" THEN ((v + 32768) % 65536) - 32768 ELSE v

Fits(v, rep) ==
    IF rep = "int16_t" THEN v >= -32768 /\ v <= 32767 ELSE TRUE

\* A double is a binary fraction: a rational is a double exactly when its
\* denominator in lowest terms is a power of two (every numerator met here
\* is far below 2^53).
RECURSIVE IsPow2(_)
IsPow2(d) == d = 1 \/ (d > 1 /\ d % 2 = 0 /\ IsPow2(d \div 2))

\* A double whose value is not followed: the result of an operation that
\* had to round (its exact result is no double), of an operation on such a
\* value, or a non-finite value.
Untracked == [n |-> 0, d |-> 0]

Tracked(x) == x.d # 0

\* The double result of an operation whose exact result is n/d: that
\* rational in lowest terms when it is a double, else a rounded value.
Rat(n, d) ==
    LET num == sign(d) * sign(n) * (abs(n) \div gcd(n, d))
        den == abs(d) \div gcd(n, d)
    IN  IF IsPow2(den) THEN [n |-> num, d |-> den] ELSE Untracked

\* x * y, x / y (y not zero), x + y, x - y of two doubles.
DoubleTimes(x, y) ==
    IF Tracked(x) /\ Tracked(y) THEN Rat(x.n * y.n, x.d * y.d) ELSE Untracked

DoubleOver(x, y) ==
    IF Tracked(x) /\ Tracked(y) THEN Rat(x.n * y.d, x.d * y.n) ELSE Untracked

DoublePlus(x, y) ==
    IF Tracked(x) /\ Tracked(y)
      THEN Rat(x.n * y.d + y.n * x.d, x.d * y.d) ELSE Untracked

DoubleMinus(x, y) ==
    IF Tracked(x) /\ Tracked(y)
      THEN Rat(x.n * y.d - y.n * x.d, x.d * y.d) ELSE Untracked

\* Implicit conversion of a value of arithmetic type from to type to, for
\* an integral from or a double to (every conversion the library itself
\* makes: its constructors refuse a double for an integral Rep).
Convert(v, from, to) ==
    IF to = "double"
      THEN (IF from = "double" THEN v ELSE Rat(v, 1))
      ELSE Narrow(v, to)

\* x * k and x / k for a value x of type rep and an intmax_t k; a double
\* operand makes the arithmetic floating, otherwise it is 64-bit integer
\* arithmetic.
Times(x, rep, k) ==
    IF rep = "double" THEN DoubleTimes(x, Rat(k, 1)) ELSE x * k

Over(x, rep, k) ==
    IF rep = "double" THEN DoubleOver(x, Rat(k, 1)) ELSE TruncDiv(x, k)

\* x + y, x - y of two values of the same type rep.
Plus(x, y, rep) == IF rep = "double" THEN DoublePlus(x, y) ELSE x + y

Minus(x, y, rep) == IF rep = "double" THEN DoubleMinus(x, y) ELSE x - y

\* x <=> y of two values of the same type rep.
Compare(x, y, rep) ==
    LET l == IF rep = "double" THEN x.n * y.d ELSE x
        r == IF rep = "double" THEN y.n * x.d ELSE y
    IN  IF rep = "double" /\ ~(Tracked(x) /\ Tracked(y)) THEN "untracked"
        ELSE IF l < r THEN "less" ELSE IF l > r THEN "greater" ELSE "equal"

----------------------------------------------------------------------------
(* Dimension tags. *)

Tags == {"void", "second_t", "hz_t", "watt_t", "joule_t"}

\* SU_DURATION_UNIT specialises is_duration_type; SU_UNIT does not.
is_duration_type(tag) == tag = "second_t"

----------------------------------------------------------------------------
(* The quantity type. *)

UnitType(tag, rep, scale) == [tag |-> tag, rep |-> rep, scale |-> scale]

TypeOf(u) == [tag |-> u.tag, rep |-> u.rep, scale |-> u.scale]

\* unit(const Rep2& v): the constraint, and the object it builds.
RawCtorAccepted(T, valrep) ==
    treat_as_floating_point(T.rep) \/ ~treat_as_floating_point(valrep)

unit(T, v, valrep) ==
    [tag |-> T.tag, rep |-> T.rep, scale |-> T.scale,
     count |-> Convert(v, valrep, T.rep)]

\* unit_cast dividing by the ratio's numerator before multiplying by its
\* denominator.
unit_cast_divide_first(To, u) ==
    LET R == ratio_divide(To.scale, u.scale)
        C == CommonRep(To.rep, u.rep)
        v == Convert(u.count, u.rep, C)
    IN  [tag |-> To.tag, rep |-> To.rep, scale |-> To.scale,
         count |-> Convert(Times(Over(v, C, R.num), WithIntmax(C), R.den),
                           WithIntmax(C), To.rep)]

\* unit_cast<To>(u): well-formed when the tags agree and To((v * den) / num)
\* finds a constructor for the type of its argument.
unit_cast_accepted(To, U) ==
    /\ To.tag = U.tag
    /\ RawCtorAccepted(To, WithIntmax(CommonRep(To.rep, U.rep)))

unit_cast(To, u) ==
    LET R == ratio_divide(To.scale, u.scale)
        C == CommonRep(To.rep, u.rep)
        v == Convert(u.count, u.rep, C)
    IN  unit(To, Over(Times(v, C, R.den), WithIntmax(C), R.num), WithIntmax(C))

count(u) == u.count

\* value<Rep2>(): the count converted to scale 1.
value(u, Rep2) == count(unit_cast(UnitType(u.tag, Rep2, ratio(1, 1)), u))

\* common_type taking the product of the denominators as the common
\* denominator.
common_type_den_product(U1, U2) ==
    IF U1.rep = U2.rep /\ U1.scale = U2.scale
      THEN U1
      ELSE [tag |-> U1.tag, rep |-> CommonRep(U1.rep, U2.rep),
            scale |-> [num |-> gcd(U1.scale.num, U2.scale.num),
                       den |-> U1.scale.den * U2.scale.den]]

\* std::common_type of two unit types of one tag.
common_type(U1, U2) ==
    IF U1.rep = U2.rep /\ U1.scale = U2.scale
      THEN U1
      ELSE UnitType(U1.tag, CommonRep(U1.rep, U2.rep),
                    ratio(gcd(U1.scale.num, U2.scale.num),
                          (U1.scale.den \div gcd(U1.scale.den, U2.scale.den))
                              * U2.scale.den))

\* The constructor constraint with the scale ratio taken the other way
\* round.
UnitCtorAccepted_swapped(T, U) ==
    /\ T.tag = U.tag
    /\ \/ treat_as_floating_point(T.rep)
       \/ /\ ratio_divide(T.scale, U.scale).den = 1
          /\ ~treat_as_floating_point(U.rep)

\* unit(const unit<Tag, Rep2, Scale2>& u): the constraint and the object.
UnitCtorAccepted(T, U) ==
    /\ T.tag = U.tag
    /\ \/ treat_as_floating_point(T.rep)
       \/ /\ ratio_divide(U.scale, T.scale).den = 1
          /\ ~treat_as_floating_point(U.rep)

UnitCtor(T, u) ==
    [tag |-> T.tag, rep |-> T.rep, scale |-> T.scale,
     count |-> count(unit_cast(T, u))]

----------------------------------------------------------------------------
(* The relation tables.  mulT and divT hold the explicit specialisations   *)
(* of su::ops::mul and su::ops::div defined so far (NoEntry where there is *)
(* none); the partial specialisations of the header are built in.          *)

NoEntry == "none"

Ambiguous == "ambiguous"

EmptyTable == [p \in Tags \X Tags |-> NoEntry]

\* The explicit specialisation the header itself defines: mul<void, void>.
HeaderMul == [EmptyTable EXCEPT ![<<"void", "void">>] = "void"]

HeaderDiv == EmptyTable

\* ops::mul<T, U>::type: an explicit specialisation wins; then mul<T, void>
\* and mul<void, T>; the primary template has no member type.
ops_mul(mt, T, U) ==
    IF mt[<<T, U>>] # NoEntry THEN mt[<<T, U>>]
    ELSE IF U = "void" THEN T
    ELSE IF T = "void" THEN U
    ELSE NoEntry

\* ops::div<T, U>::type: an explicit specialisation wins; div<void, void>
\* matches both div<T, T> and div<T, void>, neither more specialised.
ops_div(dt, T, U) ==
    IF dt[<<T, U>>] # NoEntry THEN dt[<<T, U>>]
    ELSE IF T = U /\ U = "void" THEN Ambiguous
    ELSE IF T = U THEN "void"
    ELSE IF U = "void" THEN T
    ELSE NoEntry

HasType(t) == t # NoEntry /\ t # Ambiguous

\* A declaration check that lets a key be defined again with the member
\* type it already has.
SU_MUL_accepted_same(mt, dt, lhs_1, lhs_2, rhs) ==
    /\ dt[<<rhs, lhs_1>>] \in {NoEntry, lhs_2}
    /\ dt[<<rhs, lhs_2>>] \in {NoEntry, lhs_1}
    /\ mt[<<lhs_1, lhs_2>>] \in {NoEntry, rhs}
    /\ mt[<<lhs_2, lhs_1>>] \in {NoEntry, rhs}
    /\ lhs_1 # lhs_2

\* The division entries with the two quotients exchanged.
SU_MUL_div_exchanged(dt, lhs_1, lhs_2, rhs) ==
    [dt EXCEPT ![<<rhs, lhs_1>>] = lhs_1, ![<<rhs, lhs_2>>] = lhs_2]

\* SU_MUL(lhs_1, lhs_2, rhs) defines div<rhs, lhs_1>, div<rhs, lhs_2>,
\* mul<lhs_1, lhs_2> and mul<lhs_2, lhs_1>.  Defining an explicit
\* specialisation a second time is a redefinition, whatever its member
\* type, so the four must be new and pairwise different.
SU_MUL_accepted(mt, dt, lhs_1, lhs_2, rhs) ==
    /\ dt[<<rhs, lhs_1>>] = NoEntry
    /\ dt[<<rhs, lhs_2>>] = NoEntry
    /\ mt[<<lhs_1, lhs_2>>] = NoEntry
    /\ mt[<<lhs_2, lhs_1>>] = NoEntry
    /\ lhs_1 # lhs_2

SU_MUL_mul(mt, lhs_1, lhs_2, rhs) ==
    [mt EXCEPT ![<<lhs_1, lhs_2>>] = rhs, ![<<lhs_2, lhs_1>>] = rhs]

SU_MUL_div(dt, lhs_1, lhs_2, rhs) ==
    [dt EXCEPT ![<<rhs, lhs_1>>] = lhs_2, ![<<rhs, lhs_2>>] = lhs_1]

\* The tables of src/test.cpp: SU_INV(second_t, hz_t), which is
\* SU_MUL(second_t, hz_t, void), then SU_MUL(second_t, watt_t, joule_t).
TestMul ==
    SU_MUL_mul(SU_MUL_mul(HeaderMul, "second_t", "hz_t", "void"),
               "second_t", "watt_t", "joule_t")

TestDiv ==
    SU_MUL_div(SU_MUL_div(HeaderDiv, "second_t", "hz_t", "void"),
               "second_t", "watt_t", "joule_t")

----------------------------------------------------------------------------
(* Binary operators of two quantities of one tag. *)

\* operator+ : both operands cast to the common type, counts added, and the
\* sum (an int for two int16_t) handed to T's constructor.
OpAdd(x, y) ==
    LET T == common_type(TypeOf(x), TypeOf(y))
    IN  unit(T, Plus(count(unit_cast(T, x)), count(unit_cast(T, y)), T.rep),
             T.rep)

OpSub(x, y) ==
    LET T == common_type(TypeOf(x), TypeOf(y))
    IN  unit(T, Minus(count(unit_cast(T, x)), count(unit_cast(T, y)), T.rep),
             T.rep)

\* The comparison with the right-hand count left in its own scale.
OpCompare_uncast(x, y) ==
    LET T == common_type(TypeOf(x), TypeOf(y))
    IN  Compare(count(unit_cast(T, x)), Convert(y.count, y.rep, T.rep), T.rep)

OpCompare(x, y) ==
    LET T == common_type(TypeOf(x), TypeOf(y))
    IN  Compare(count(unit_cast(T, x)), count(unit_cast(T, y)), T.rep)

OpEq(x, y) ==
    IF OpCompare(x, y) = "untracked" THEN "untracked"
    ELSE OpCompare(x, y) = "equal"

----------------------------------------------------------------------------
(* Dimension-changing operators, consulting the relation tables. *)

\* A plain number of arithmetic type rep.
Number(rep, v) == [kind |-> "number", rep |-> rep, val |-> v]

Rejected == [kind |-> "rejected"]

\* Division by a zero count: undefined for integers, an infinity or a NaN for
\* double.  The operators mark it; the actions choose among its outcomes.
Undefined == [kind |-> "undefined"]

\* What a build can make of an integer division by zero: a trap, or some
\* value; a double division by zero gives a non-finite value.
ZeroDivOutcomes(rep) ==
    IF rep = "double" THEN {"nonfinite"} ELSE {"trap", "arbitrary"}

Quantity(u) == [kind |-> "unit", q |-> u]

\* a.count() * b.count(), stored in a std::common_type_t<Rep1, Rep2>.
CountProduct(x, y) ==
    LET C == CommonRep(x.rep, y.rep)
    IN  IF C = "double"
          THEN LET l == Convert(x.count, x.rep, C)
                   r == Convert(y.count, y.rep, C)
               IN  DoubleTimes(l, r)
          ELSE Narrow(x.count * y.count, C)

\* The product keeping the scale of the left-hand operand.
OpMul_left_scale(mt, x, y) ==
    LET R == ops_mul(mt, x.tag, y.tag)
        C == CommonRep(x.rep, y.rep)
        v == CountProduct(x, y)
        S == x.scale
    IN  IF ~HasType(R) THEN Rejected
        ELSE IF R = "void"
          THEN Number(C, Convert(Over(Times(v, C, S.num), WithIntmax(C), S.den),
                                 WithIntmax(C), C))
          ELSE Quantity(unit(UnitType(R, C, S), v, C))

OpMul(mt, x, y) ==
    LET R == ops_mul(mt, x.tag, y.tag)
        C == CommonRep(x.rep, y.rep)
        v == CountProduct(x, y)
        S == ratio_multiply(x.scale, y.scale)
    IN  IF ~HasType(R) THEN Rejected
        ELSE IF R = "void"
          THEN Number(C, Convert(Over(Times(v, C, S.num), WithIntmax(C), S.den),
                                 WithIntmax(C), C))
          ELSE Quantity(unit(UnitType(R, C, S), v, C))

IsZero(v, rep) == IF rep = "double" THEN Tracked(v) /\ v.n = 0 ELSE v = 0

\* operator/ : for a dimensionless result the cast to the common type applies
\* to the numerator S::num * a.count() alone; the quotient has the type of
\* that numerator divided by S::den * b.count().
OpDiv(dt, x, y) ==
    LET R == ops_div(dt, x.tag, y.tag)
        C == CommonRep(x.rep, y.rep)
        S == ratio_divide(x.scale, y.scale)
        numer == Convert(Times(x.count, x.rep, S.num), WithIntmax(x.rep), C)
        denom == Times(y.count, y.rep, S.den)
        Q == CommonRep(C, WithIntmax(y.rep))
    IN  IF ~HasType(R) THEN Rejected
        ELSE IF IsZero(y.count, y.rep) THEN Undefined
        ELSE IF R = "void"
          THEN IF Q = "double"
                 THEN LET l == Convert(numer, C, Q)
                          r == Convert(denom, WithIntmax(y.rep), Q)
                      IN  Number(Q, DoubleOver(l, r))
                 ELSE Number(Q, TruncDiv(numer, denom))
          ELSE IF C = "double"
                 THEN LET l == Convert(x.count, x.rep, C)
                          r == Convert(y.count, y.rep, C)
                      IN  Quantity(unit(UnitType(R, C, S), DoubleOver(l, r), C))
                 ELSE Quantity(unit(UnitType(R, C, S),
                                    TruncDiv(x.count, y.count), C))

----------------------------------------------------------------------------
(* The std::chrono bridge.  A std::chrono::duration<Rep, Period> object is *)
(* the record [rep, period, count].                                        *)

Duration(rep, period, c) == [rep |-> rep, period |-> period, count |-> c]

\* operator std::chrono::duration<Rep2, Scale2>(): constrained by the
\* duration flag alone; its body must find unit_cast well-formed.
ToDurationAccepted(U, Rep2, Scale2) ==
    /\ is_duration_type(U.tag)
    /\ unit_cast_accepted(UnitType(U.tag, Rep2, Scale2), U)

ToDuration(u, Rep2, Scale2) ==
    Duration(Rep2, Scale2, count(unit_cast(UnitType(u.tag, Rep2, Scale2), u)))

\* std::chrono::duration_cast<duration<ToRep, ToPeriod>>(d).
duration_cast(ToRep, ToPeriod, d) ==
    LET CF == ratio_divide(d.period, ToPeriod)
        CR == WithIntmax(CommonRep(ToRep, d.rep))
        v  == Convert(d.count, d.rep, CR)
    IN  Duration(ToRep, ToPeriod,
                 Convert(Over(Times(v, CR, CF.num), CR, CF.den), CR, ToRep))

\* unit(const std::chrono::duration<Rep2, Scale2>& d).
DurationCtorAccepted(T, Rep2, Scale2) ==
    /\ is_duration_type(T.tag)
    /\ \/ treat_as_floating_point(T.rep)
       \/ /\ ratio_divide(Scale2, T.scale).den = 1
          /\ ~treat_as_floating_point(Rep2)

DurationCtor(T, d) ==
    [tag |-> T.tag, rep |-> T.rep, scale |-> T.scale,
     count |-> duration_cast(T.rep, T.scale, d).count]

----------------------------------------------------------------------------------------------------------------------------------------
(* Compound assignment.  operator+=, -=, %= take a const unit& of the      *)
(* left-hand type, so overload resolution accepts an argument of another   *)
(* type when the converting constructor accepts it; operator*=, /=, %=     *)
(* take a const Rep&.  The six bodies are constexpr, return unit& and have *)
(* no return statement: a call that names one of them does not compile.    *)

CompoundViable(T, U) == UnitCtorAccepted(T, U)

\* The call found a viable operator, whose body is ill-formed.
IllFormed == [kind |-> "ill_formed"]

\* The statements of the bodies, with u converted to the left-hand type
\* and k of type Rep: m_val += u.m_val, m_val -= u.m_val, m_val %= u.m_val,
\* m_val *= v, m_val /= v, m_val %= v.
PlusAssign(x, u) ==
    [x EXCEPT !.count =
        Convert(Plus(x.count, count(UnitCtor(TypeOf(x), u)), x.rep), x.rep, x.rep)]

MinusAssign(x, u) ==
    [x EXCEPT !.count =
        Convert(Minus(x.count, count(UnitCtor(TypeOf(x), u)), x.rep), x.rep, x.rep)]

ModAssign(x, u) ==
    [x EXCEPT !.count =
        Convert(TruncRem(x.count, count(UnitCtor(TypeOf(x), u))), x.rep, x.rep)]

ScalarTimesAssign(x, k) ==
    [x EXCEPT !.count =
        IF x.rep = "double" THEN DoubleTimes(x.count, k)
        ELSE Convert(x.count * k, WithIntmax(x.rep), x.rep)]

ScalarOverAssign(x, k) ==
    [x EXCEPT !.count =
        IF x.rep = "double" THEN DoubleOver(x.count, k)
        ELSE Convert(TruncDiv(x.count, k), WithIntmax(x.rep), x.rep)]

ScalarModAssign(x, k) ==
    [x EXCEPT !.count =
        Convert(TruncRem(x.count, k), WithIntmax(x.rep), x.rep)]

----------------
(* Inputs. *)

Counts == (-MaxCount) .. MaxCount

Scales ==
    {ratio(1, 1), ratio(1000, 1), ratio(1000000, 1), ratio(4, 1), ratio(6, 1),
     ratio(1, 4), ratio(1, 6)}

\* A stored count c of representation rep.
Stored(c, rep) == IF rep = "double" THEN Rat(c, 1) ELSE c

Quantities(tag, reps, scales) ==
    {[tag |-> tag, rep |-> r, scale |-> s, count |-> Stored(c, r)] :
        r \in reps, s \in scales, c \in Counts}

SameTags == {"second_t", "watt_t"}

Idle == [op |-> "idle"]

----------------------------------------------------------------------------
(* Spec: two quantities a and b of one tag, and one operation applied to   *)
(* them under the relation tables of src/test.cpp.                         *)

Init ==
    /\ mulT = TestMul
    /\ divT = TestDiv
    /\ \E t \in SameTags :
          /\ a \in Quantities(t, Reps, Scales)
          /\ b \in Quantities(t, Reps, Scales)
    /\ res = Idle

Apply(op, out) ==
    /\ res = Idle
    /\ res' = [op |-> op, out |-> out]
    /\ UNCHANGED <<mulT, divT, a, b>>

\* a + b, a - b
Add == Apply("add", Quantity(OpAdd(a, b)))

Sub == Apply("sub", Quantity(OpSub(a, b)))

\* a == b, a <=> b
Eq == Apply("eq", [kind |-> "bool", val |-> OpEq(a, b)])

Cmp == Apply("cmp", [kind |-> "order", val |-> OpCompare(a, b)])

\* a / b
Div ==
    /\ res = Idle
    /\ IF OpDiv(divT, a, b) = Undefined
         THEN \E o \in ZeroDivOutcomes(CommonRep(a.rep, b.rep)) :
                 Apply("div", [kind |-> o])
         ELSE Apply("div", OpDiv(divT, a, b))

\* a * b
Mul == Apply("mul", OpMul(mulT, a, b))

\* unit_cast<B>(a), B the type of b
Cast ==
    Apply("cast", IF unit_cast_accepted(TypeOf(b), TypeOf(a))
                    THEN Quantity(unit_cast(TypeOf(b), a))
                    ELSE Rejected)

\* a.value<Rep2>(), Rep2 the representation of b
Value ==
    Apply("value",
          IF unit_cast_accepted(UnitType(a.tag, b.rep, ratio(1, 1)), TypeOf(a))
            THEN Number(b.rep, value(a, b.rep))
            ELSE Rejected)

\* B(a): a quantity of the type of b constructed from a
Construct ==
    Apply("construct", IF UnitCtorAccepted(TypeOf(b), TypeOf(a))
                         THEN Quantity(UnitCtor(TypeOf(b), a))
                         ELSE Rejected)

\* std::chrono::duration<Rep2, Scale2> d = a, with Rep2 and Scale2 of b
ToChrono ==
    Apply("to_duration",
          IF ToDurationAccepted(TypeOf(a), b.rep, b.scale)
            THEN [kind |-> "duration", d |-> ToDuration(a, b.rep, b.scale)]
            ELSE Rejected)

\* A(d): a quantity of the type of a constructed back from that duration
Back ==
    /\ res.op = "to_duration"
    /\ res.out.kind = "duration"
    /\ res' = [op |-> "back",
               out |-> IF DurationCtorAccepted(TypeOf(a), res.out.d.rep,
                                               res.out.d.period)
                         THEN Quantity(DurationCtor(TypeOf(a), res.out.d))
                         ELSE Rejected]
    /\ UNCHANGED <<mulT, divT, a, b>>

\* A(d) for the duration d = std::chrono::duration<Rep2, Scale2>(b.count())
FromChrono ==
    Apply("from_duration",
          IF DurationCtorAccepted(TypeOf(a), b.rep, b.scale)
            THEN Quantity(DurationCtor(TypeOf(a),
                                       Duration(b.rep, b.scale, b.count)))
            ELSE Rejected)

\* A compound assignment to a: the call is rejected when no operator is
\* viable for the argument; otherwise the operator chosen is instantiated
\* and its body is ill-formed.  Either way nothing runs and a is as it was.
Compound(op, viable) == Apply(op, IF viable THEN IllFormed ELSE Rejected)

\* a += b, a -= b, a %= b
AddAssign == Compound("add_assign", CompoundViable(TypeOf(a), TypeOf(b)))

SubAssign == Compound("sub_assign", CompoundViable(TypeOf(a), TypeOf(b)))

RemAssign == Compound("rem_assign", CompoundViable(TypeOf(a), TypeOf(b)))

\* a *= v, a /= v, a %= v for the scalar v = b.count(): an arithmetic
\* argument always converts to const Rep&.
ScalarMulAssign == Compound("mul_assign_scalar", TRUE)

ScalarDivAssign == Compound("div_assign_scalar", TRUE)

ScalarRemAssign == Compound("rem_assign_scalar", TRUE)

Next ==
    \/ Add \/ Sub \/ Eq \/ Cmp \/ Div \/ Cast \/ Value \/ Construct
    \/ ToChrono \/ Back \/ FromChrono \/ AddAssign \/ SubAssign \/ RemAssign
    \/ ScalarMulAssign \/ ScalarDivAssign \/ ScalarRemAssign

Spec == Init /\ [][Next]_vars

----------------------------------------------------------------------------
(* SpecDim: two quantities of any two tags, multiplied or divided under    *)
(* the relation tables of src/test.cpp.                                    *)

DimScales == {ratio(1, 1), ratio(1000, 1), ratio(1, 1000)}

\* Quantities of scale 1 with a large count.
LargeQuantities(tag, reps) ==
    {[tag |-> tag, rep |-> r, scale |-> ratio(1, 1), count |-> Stored(c, r)] :
        r \in reps, c \in {-LargeCount, LargeCount}}

InitDim ==
    /\ mulT = TestMul
    /\ divT = TestDiv
    /\ \E t1 \in Tags, t2 \in Tags :
          /\ a \in Quantities(t1, Reps, DimScales) \cup LargeQuantities(t1, Reps)
          /\ b \in Quantities(t2, Reps, DimScales) \cup LargeQuantities(t2, Reps)
    /\ res = Idle

NextDim == Mul \/ Div

SpecDim == InitDim /\ [][NextDim]_vars

----------------------------------------------------------------------------
(* SpecRel: a translation unit that includes the header and then declares  *)
(* relations one after the other.  A declaration the compiler rejects      *)
(* leaves the tables as they were and ends the translation unit.           *)

RelTags == {"void", "second_t", "watt_t", "joule_t"}

\* unit::zero()
zero(T) == unit(T, 0, "int64_t")

\* The number of relation declarations accepted so far.
NumDecls == (Cardinality({p \in Tags \X Tags : mulT[p] # NoEntry}) - 1) \div 2

\* The macro op(x, y, z), which expands to SU_MUL(lhs_1, lhs_2, rhs).
Declare(op, x, y, z, lhs_1, lhs_2, rhs) ==
    /\ IF res = Idle THEN TRUE ELSE res.ok
    /\ IF SU_MUL_accepted(mulT, divT, lhs_1, lhs_2, rhs)
         THEN /\ NumDecls < MaxDecls
              /\ mulT' = SU_MUL_mul(mulT, lhs_1, lhs_2, rhs)
              /\ divT' = SU_MUL_div(divT, lhs_1, lhs_2, rhs)
              /\ res' = [op |-> op, args |-> <<x, y, z>>, ok |-> TRUE]
         ELSE /\ res' = [op |-> op, args |-> <<x, y, z>>, ok |-> FALSE]
              /\ UNCHANGED <<mulT, divT>>
    /\ UNCHANGED <<a, b>>

\* SU_MUL(lhs_1, lhs_2, rhs)
SU_MUL ==
    \E lhs_1 \in RelTags, lhs_2 \in RelTags, rhs \in RelTags :
        Declare("SU_MUL", lhs_1, lhs_2, rhs, lhs_1, lhs_2, rhs)

\* SU_DIV(lhs_1, lhs_2, rhs) is SU_MUL(rhs, lhs_2, lhs_1)
SU_DIV ==
    \E lhs_1 \in RelTags, lhs_2 \in RelTags, rhs \in RelTags :
        Declare("SU_DIV", lhs_1, lhs_2, rhs, rhs, lhs_2, lhs_1)

\* SU_INV(lhs, rhs) is SU_MUL(lhs, rhs, void)
SU_INV ==
    \E lhs \in RelTags, rhs \in RelTags :
        Declare("SU_INV", lhs, rhs, "void", lhs, rhs, "void")

InitRel ==
    /\ mulT = HeaderMul
    /\ divT = HeaderDiv
    /\ a = zero(UnitType("second_t", "int64_t", ratio(1, 1)))
    /\ b = zero(UnitType("second_t", "int64_t", ratio(1, 1)))
    /\ res = Idle

NextRel == SU_MUL \/ SU_DIV \/ SU_INV

SpecRel == InitRel /\ [][NextRel]_vars

----------------------------------------------------------------------------
(* Reference arithmetic for the properties: exact integers and rationals,  *)
(* written without the operators above.                                    *)

\* g is the greatest common divisor of the positive integers x and y.
IsGcd(g, x, y) ==
    /\ g > 0 /\ x % g = 0 /\ y % g = 0
    /\ LET p == x \div g
           q == y \div g
       IN  \A k \in 2 .. (IF p < q THEN p ELSE q) : ~(p % k = 0 /\ q % k = 0)

\* m is the least common multiple of the positive integers x and y.
IsLcm(m, x, y) ==
    /\ m > 0 /\ m % x = 0 /\ m % y = 0
    /\ LET p == m \div x
           q == m \div y
       IN  \A k \in 2 .. (IF p < q THEN p ELSE q) : ~(p % k = 0 /\ q % k = 0)

\* The scale T evenly divides the scale S: S / T is a whole number.
EvenlyDivides(T, S) == (S.num * T.den) % (S.den * T.num) = 0

\* The count of the integral quantity q expressed in a scale T that evenly
\* divides its own.
ExactIn(q, T) == (q.count * q.scale.num * T.den) \div (q.scale.den * T.num)

\* How the exact rationals l1/l2 and r1/r2 (positive denominators) compare.
ExactOrder(l1, l2, r1, r2) ==
    IF l1 * r2 < r1 * l2 THEN "less"
    ELSE IF l1 * r2 > r1 * l2 THEN "greater" ELSE "equal"

IntegralPair == a.rep \in IntReps /\ b.rep \in IntReps

----------------------------------------------------------------------------
(* C1: sum and difference of two integral quantities of one tag.           *)

\* The statement for a + b and a - b, with the proviso that the operands as
\* expressed in the result scale, and the result, lie in the range of rep
\* (the result's own representation when rep is "result").
SumDifference(rep) ==
    (res.op \in {"add", "sub"} /\ IntegralPair) =>
        LET r  == res.out.q
            R  == IF rep = "result" THEN r.rep ELSE rep
            xa == ExactIn(a, r.scale)
            xb == ExactIn(b, r.scale)
            x  == IF res.op = "add" THEN xa + xb ELSE xa - xb
            m  == IF res.op = "add"
                    THEN a.count * a.scale.num * b.scale.den
                           + b.count * b.scale.num * a.scale.den
                    ELSE a.count * a.scale.num * b.scale.den
                           - b.count * b.scale.num * a.scale.den
        IN  /\ r.tag = a.tag
            /\ IsGcd(r.scale.num, a.scale.num, b.scale.num)
            /\ IsLcm(r.scale.den, a.scale.den, b.scale.den)
            /\ EvenlyDivides(r.scale, a.scale)
            /\ EvenlyDivides(r.scale, b.scale)
            /\ (Fits(xa, R) /\ Fits(xb, R) /\ Fits(x, R)) =>
                  r.count * r.scale.num * a.scale.den * b.scale.den
                      = m * r.scale.den

\* C1 (as amended): for two integral quantities a and b of one tag, a + b and
\* a - b have the scale gcd(num_a, num_b) / lcm(den_a, den_b), which evenly
\* divides both operand scales, and the result's count times that scale is
\* exactly count_a x scale_a +/- count_b x scale_b, provided both operands
\* expressed in the result scale and the result itself fit the result's
\* representation (the common type of the two representations).
C1_SumExactInCommonRep == SumDifference("result")

\* C1 as stated: the same with the proviso that the values stay in the
\* 64-bit range, whatever the two representations.
C1_SumExactIn64Bit == SumDifference("int64_t")

C1_Witness ==
    /\ res.op = "add"
    /\ a.rep = "int16_t" /\ a.scale = ratio(1, 4) /\ a.count = 1
    /\ b.rep = "int64_t" /\ b.scale = ratio(1, 6) /\ b.count = 1
    /\ res.out.q.scale = ratio(1, 12) /\ res.out.q.count = 5

----------------------------------------------------------------------------
(* C2: equality and ordering of two integral quantities of one tag.        *)

\* The statement for a == b and a <=> b, with the proviso that both counts
\* converted to the common scale lie in the range of rep (the common
\* representation when rep is "common").
Comparison(rep) ==
    (res.op \in {"eq", "cmp"} /\ IntegralPair) =>
        LET T == common_type(TypeOf(a), TypeOf(b))
            R == IF rep = "common" THEN T.rep ELSE rep
            exact == ExactOrder(a.count * a.scale.num, a.scale.den,
                                b.count * b.scale.num, b.scale.den)
        IN  (Fits(ExactIn(a, T.scale), R) /\ Fits(ExactIn(b, T.scale), R)) =>
                IF res.op = "eq"
                  THEN res.out.val = (exact = "equal")
                  ELSE res.out.val = exact

\* C2 (as amended): for two integral quantities of one tag, a == b is true
\* exactly when count_a x scale_a = count_b x scale_b as exact rationals, and
\* a <=> b orders them as those rationals compare, provided both counts
\* converted to the common scale fit the common representation.
C2_CompareExactInCommonRep == Comparison("common")

\* C2 as stated: the same with the proviso that the converted counts stay in
\* the 64-bit range.
C2_CompareExactIn64Bit == Comparison("int64_t")

C2_Witness ==
    /\ res.op = "eq"
    /\ a.rep = "int16_t" /\ a.scale = ratio(6, 1) /\ a.count = 2
    /\ b.rep = "int64_t" /\ b.scale = ratio(4, 1) /\ b.count = 3
    /\ res.out.val = TRUE

----------------------------------------------------------------------------
(* C4: the quotient of two integral quantities of one tag.                 *)

\* C4: for integral a and b of one tag with b non-zero, whatever the two
\* integral representations and the two scales, a / b is a plain number
\* equal to (count_a x scale_a) / (count_b x scale_b) truncated toward zero.
\* (Every product of a count with a term of the scale ratio is far inside
\* the 64-bit range for the quantities drawn here.)
C4_QuotientExact ==
    (res.op = "div" /\ IntegralPair /\ b.count # 0) =>
        /\ res.out.kind = "number"
        /\ res.out.val = TruncDiv(a.count * a.scale.num * b.scale.den,
                                  b.count * b.scale.num * a.scale.den)

----------------------------------------------------------------------------
(* C5: unit_cast and value() on integral quantities.                       *)

\* The count c x n / d truncated toward zero, n/d being S/T in lowest terms
\* and the multiplication done first.
ScaledCount(c, S, T) ==
    LET nd == ratio(S.num * T.den, S.den * T.num)
    IN  TruncDiv(c * nd.num, nd.den)

\* C5 as stated: unit_cast of an integral quantity (count c, scale S) to a
\* type of the same tag with scale T and an integral representation returns
\* a quantity of that type whose count is (c x n) / d truncated toward zero,
\* n/d = S/T in lowest terms, multiplied before divided; value<R>() is the
\* same with T = 1.
C5_CastQuotient ==
    /\ (res.op = "cast" /\ IntegralPair) =>
          /\ res.out.kind = "unit"
          /\ TypeOf(res.out.q) = TypeOf(b)
          /\ res.out.q.count = ScaledCount(a.count, a.scale, b.scale)
    /\ (res.op = "value" /\ IntegralPair) =>
          /\ res.out.kind = "number"
          /\ res.out.rep = b.rep
          /\ res.out.val = ScaledCount(a.count, a.scale, [num |-> 1, den |-> 1])

\* The value v converted to the integral representation rep: v itself where
\* rep holds it, v modulo 2^16 in the 16-bit range otherwise.
Narrowed(v, rep) ==
    IF Fits(v, rep) THEN v ELSE ((v + 32768) % 65536) - 32768

\* C5 (as amended): the count returned is (c x n) / d truncated toward zero,
\* multiplied before divided, and then narrowed to the target
\* representation: that quotient where the target representation holds it,
\* the quotient modulo 2^16 for an int16_t target that does not; value<R>()
\* is the same with T = 1.
C5_CastMultiplyThenDivide ==
    /\ (res.op = "cast" /\ IntegralPair) =>
          /\ res.out.kind = "unit"
          /\ TypeOf(res.out.q) = TypeOf(b)
          /\ res.out.q.count
                = Narrowed(ScaledCount(a.count, a.scale, b.scale), b.rep)
    /\ (res.op = "value" /\ IntegralPair) =>
          /\ res.out.kind = "number"
          /\ res.out.rep = b.rep
          /\ res.out.val
                = Narrowed(ScaledCount(a.count, a.scale, [num |-> 1, den |-> 1]),
                           b.rep)

C5_Witness ==
    /\ res.op = "cast"
    /\ a.rep = "int64_t" /\ a.scale = ratio(4, 1) /\ a.count = 2
    /\ b.rep = "int16_t" /\ b.scale = ratio(6, 1)
    /\ res.out.q.count = 1

----------------------------------------------------------------------------
(* C6: construction of a quantity from another quantity of the same tag.   *)

\* C6 as stated: constructing a quantity of an integral representation from
\* a quantity of the same tag is accepted exactly when the source
\* representation is not floating-point and source scale / target scale is
\* a whole number; every accepted one is exact, new count x target scale =
\* source count x source scale; construction of a floating-point quantity
\* is always accepted.
C6_AcceptedIsExact ==
    (res.op = "construct") =>
        IF b.rep \in IntReps
          THEN /\ (res.out.kind # "rejected")
                     <=> (a.rep \in IntReps /\ EvenlyDivides(b.scale, a.scale))
               /\ (res.out.kind # "rejected") =>
                     /\ res.out.kind = "unit"
                     /\ TypeOf(res.out.q) = TypeOf(b)
                     /\ res.out.q.count * b.scale.num * a.scale.den
                           = a.count * a.scale.num * b.scale.den
          ELSE res.out.kind = "unit" /\ TypeOf(res.out.q) = TypeOf(b)

\* C6 (as amended): the acceptance condition as stated; an accepted
\* construction into an integral representation stores the source count
\* times the whole number source scale / target scale, narrowed to the
\* target representation, so it is exact (new count x target scale =
\* source count x source scale) where the target representation holds that
\* count, and the count modulo 2^16 for an int16_t target that does not.
C6_ConstructGuard ==
    (res.op = "construct") =>
        IF b.rep \in IntReps
          THEN /\ (res.out.kind # "rejected")
                     <=> (a.rep \in IntReps /\ EvenlyDivides(b.scale, a.scale))
               /\ (res.out.kind # "rejected") =>
                     /\ res.out.kind = "unit"
                     /\ TypeOf(res.out.q) = TypeOf(b)
                     /\ res.out.q.count = Narrowed(ExactIn(a, b.scale), b.rep)
                     /\ Fits(ExactIn(a, b.scale), b.rep) =>
                           res.out.q.count * b.scale.num * a.scale.den
                               = a.count * a.scale.num * b.scale.den
          ELSE res.out.kind = "unit" /\ TypeOf(res.out.q) = TypeOf(b)

C6_Witness ==
    /\ res.op = "construct"
    /\ a.rep = "int16_t" /\ a.scale = ratio(1000, 1) /\ a.count = 3
    /\ b.rep = "int64_t" /\ b.scale = ratio(1, 1)
    /\ res.out.kind = "unit" /\ res.out.q.count = 3000

----------------------------------------------------------------------------
(* C9: the round trip through std::chrono::duration.                       *)

\* C9: for a duration-compatible tag and integral representations, a
\* quantity converted to a duration type the library accepts, and a quantity
\* of the original type constructed from that duration, is equal to the
\* original (the duration's count being one its representation holds); for a
\* tag without the duration flag both directions are rejected.
C9_DurationRoundTrip ==
    /\ (/\ res.op = "back"
        /\ IntegralPair
        /\ res.out.kind = "unit"
        /\ Fits(ScaledCount(a.count, a.scale, b.scale), b.rep))
          => /\ TypeOf(res.out.q) = TypeOf(a)
             /\ res.out.q.count = a.count
    /\ (res.op \in {"to_duration", "from_duration"} /\ ~is_duration_type(a.tag))
          => res.out = Rejected

---------------------------------------------------------------------------------------------------------------------------------------------
(* C10: compound assignment with another quantity.                         *)

CompoundOps == {"add_assign", "sub_assign", "rem_assign"}

\* C10: a compound assignment with another quantity (+=, -=, %=) is
\* accepted only when the right-hand operand has exactly the type (tag,
\* representation, scale) of the left-hand quantity, an operand of another
\* type being rejected as an operand and not converted; and one with an
\* operand of exactly that type is accepted and carried out.
C10_IdenticalTypeOnly ==
    (res.op \in CompoundOps) =>
        /\ (TypeOf(b) # TypeOf(a)) => res.out = Rejected
        /\ (TypeOf(b) = TypeOf(a)) => res.out.kind \notin {"rejected", "ill_formed"}

-----------
(* C3: the product of two integral quantities with a registered product.   *)

\* The quantity of tag C whose magnitude is (count_a x scale_a) x
\* (count_b x scale_b), written with a scale of its own.
ProductMagnitude(C) ==
    [tag |-> C, rep |-> "int64_t",
     scale |-> [num |-> 1, den |-> a.scale.den * b.scale.den],
     count |-> a.count * a.scale.num * b.count * b.scale.num]

\* C3 as stated: for tags A and B with a registered product C other than
\* the dimensionless marker, and integral a of tag A and b of tag B in any
\* scales, a * b is a quantity of tag C with scale scale_a x scale_b and
\* count count_a x count_b, it compares equal to the C quantity of magnitude
\* (count_a x scale_a) x (count_b x scale_b), and b * a is the same result.
C3_ProductExact ==
    (/\ res.op = "mul"
     /\ IntegralPair
     /\ mulT[<<a.tag, b.tag>>] \notin {NoEntry, "void"}) =>
        /\ res.out.kind = "unit"
        /\ res.out.q.tag = mulT[<<a.tag, b.tag>>]
        /\ res.out.q.scale.num * a.scale.den * b.scale.den
              = a.scale.num * b.scale.num * res.out.q.scale.den
        /\ res.out.q.count = a.count * b.count
        /\ OpEq(res.out.q, ProductMagnitude(res.out.q.tag)) = TRUE
        /\ OpMul(mulT, b, a) = res.out

\* C3 (as amended): a * b is a quantity of tag C with scale scale_a x
\* scale_b whose representation is the common representation of the two
\* operands and whose count is count_a x count_b converted to that
\* representation (modulo 2^16 for two int16_t operands); where the product
\* fits that representation the count is count_a x count_b and a * b
\* compares equal to the C quantity of magnitude (count_a x scale_a) x
\* (count_b x scale_b); and b * a is the same result.
C3_ProductScaleInvariant ==
    (/\ res.op = "mul"
     /\ IntegralPair
     /\ mulT[<<a.tag, b.tag>>] \notin {NoEntry, "void"}) =>
        /\ res.out.kind = "unit"
        /\ res.out.q.tag = mulT[<<a.tag, b.tag>>]
        /\ res.out.q.scale.num * a.scale.den * b.scale.den
              = a.scale.num * b.scale.num * res.out.q.scale.den
        /\ res.out.q.rep = (IF a.rep = "int16_t" /\ b.rep = "int16_t"
                              THEN "int16_t" ELSE "int64_t")
        /\ IF Fits(a.count * b.count, res.out.q.rep)
             THEN /\ res.out.q.count = a.count * b.count
                  /\ OpEq(res.out.q, ProductMagnitude(res.out.q.tag)) = TRUE
             ELSE res.out.q.count = Narrowed(a.count * b.count, res.out.q.rep)
        /\ OpMul(mulT, b, a) = res.out

C3_Witness ==
    /\ res.op = "mul"
    /\ a.tag = "second_t" /\ a.rep = "int64_t" /\ a.scale = ratio(1000, 1)
    /\ a.count = 3
    /\ b.tag = "watt_t" /\ b.rep = "int16_t" /\ b.scale = ratio(1, 1000)
    /\ b.count = 2
    /\ res.out.q.tag = "joule_t" /\ res.out.q.scale = ratio(1, 1)
    /\ res.out.q.count = 6

----------------------------------------------------------------------------
(* C7, C8: the relation tables under declarations.                         *)

\* The relation lhs_1 x lhs_2 = rhs that the declaration recorded in r
\* states: SU_DIV(x, y, z) states x / y = z, that is z x y = x.
Stated(r) ==
    IF r.op = "SU_DIV"
      THEN <<r.args[3], r.args[2], r.args[1]>>
      ELSE <<r.args[1], r.args[2], r.args[3]>>

\* All four entries of the relation A x B = C are found by lookup.
FourEntries(A, B, C) ==
    /\ ops_mul(mulT, A, B) = C
    /\ ops_mul(mulT, B, A) = C
    /\ ops_div(divT, C, A) = B
    /\ ops_div(divT, C, B) = A

\* A quantity of tag T with count 1.
One(T) == [tag |-> T, rep |-> "int64_t", scale |-> [num |-> 1, den |-> 1],
           count |-> 1]

\* C7: after any sequence of accepted declarations, every declared relation
\* (A, B) -> C has its four entries A x B = C, B x A = C, C / A = B and
\* C / B = A; an inverse declaration is the case C = dimensionless; and a
\* pair of tags never declared and not covered by a built-in rule has no
\* entry, so that multiplying or dividing two such quantities is rejected.
C7_RelationTables ==
    /\ \A A \in Tags, B \in Tags :
          (mulT[<<A, B>>] # NoEntry /\ <<A, B>> # <<"void", "void">>) =>
              FourEntries(A, B, mulT[<<A, B>>])
    /\ (res # Idle) =>
          (res.ok => FourEntries(Stated(res)[1], Stated(res)[2], Stated(res)[3]))
    /\ (res # Idle) =>
          ((res.ok /\ res.op = "SU_INV") =>
              /\ ops_mul(mulT, res.args[1], res.args[2]) = "void"
              /\ ops_div(divT, "void", res.args[1]) = res.args[2]
              /\ ops_div(divT, "void", res.args[2]) = res.args[1])
    /\ \A A \in Tags \ {"void"}, B \in Tags \ {"void"} :
          /\ (mulT[<<A, B>>] = NoEntry) =>
                /\ ops_mul(mulT, A, B) = NoEntry
                /\ OpMul(mulT, One(A), One(B)) = Rejected
          /\ (divT[<<A, B>>] = NoEntry /\ A # B) =>
                /\ ops_div(divT, A, B) = NoEntry
                /\ OpDiv(divT, One(A), One(B)) = Rejected

C7_Witness ==
    /\ res # Idle
    /\ IF res = Idle THEN FALSE
       ELSE /\ res.ok /\ res.op = "SU_INV"
            /\ res.args = <<"second_t", "joule_t", "void">>
    /\ mulT[<<"second_t", "watt_t">>] = "joule_t"
    /\ mulT[<<"watt_t", "joule_t">>] = NoEntry

\* A step is the declaration of a relation whose ordered pair already has a
\* declared entry: mul<lhs_1, lhs_2> for SU_MUL and SU_INV, div<lhs_1, lhs_2>
\* for SU_DIV.  Registered is that entry.
Registered(r) ==
    IF r.op = "SU_DIV" THEN divT[<<r.args[1], r.args[2]>>]
                       ELSE mulT[<<r.args[1], r.args[2]>>]

\* C8 as stated: declaring a relation for an ordered pair that already has
\* an entry is rejected when the new result differs from the registered one,
\* and accepted, leaving both tables unchanged, when it is the same.  (Read
\* of the entries that declarations made, the header's own entry for the
\* dimensionless pair left aside.)
C8_SameResultHarmless ==
    [][(/\ Registered(res') # NoEntry
        /\ <<res'.args[1], res'.args[2]>> # <<"void", "void">>) =>
          IF Registered(res') = res'.args[3]
            THEN res'.ok /\ mulT' = mulT /\ divT' = divT
            ELSE ~res'.ok]_vars

\* C8 (as amended): declaring a relation for an ordered pair that already
\* has a declared entry is rejected whether the new result is the
\* registered one or another, and leaves both tables unchanged.
C8_RedeclarationRejected ==
    [][(Registered(res') # NoEntry) =>
          ~res'.ok /\ mulT' = mulT /\ divT' = divT]_vars

C8_Witness ==
    /\ res # Idle
    /\ IF res = Idle THEN FALSE
       ELSE /\ ~res.ok /\ res.op = "SU_MUL"
            /\ res.args = <<"second_t", "watt_t", "joule_t">>
    /\ mulT[<<"second_t", "watt_t">>] = "joule_t"

====
